---- MODULE Spec2Model ----
(***************************************************************************)
(* Post50 (src/Post50/app.py): a Flask application over an SQLite store.   *)
(* The model keeps the five tables (user, post, tag, comment, vote), the   *)
(* request handlers that change them, and the feed that reads them.        *)
(*                                                                         *)
(* Requests are served concurrently, each with its own database session.   *)
(* The vote and comment handlers are modelled by the statements they send  *)
(* to the store: the reads (the post and vote look-ups), the commit, and   *)
(* for a vote the two COUNT queries that follow the commit.  Other         *)
(* handlers interleave with them between those statements.                 *)
(*                                                                         *)
(* Text is a tuple of one-character strings.  An absent row (Python None)  *)
(* is id 0.  SQLite gives a new row the id max(id)+1 of its table, so the  *)
(* id of a deleted last row is given out again.  SQLite does not enforce   *)
(* the declared foreign keys (the application never turns them on).        *)
(***************************************************************************)
EXTENDS Integers, Sequences, FiniteSets, TLC

VARIABLES
    users,     \* table user:    set of [id, username, email]
    posts,     \* table post:    set of [id, title, content, author, created_at, tags]
    tags,      \* table tag:     set of [id, name]
    comments,  \* table comment: set of [id, post, author]
    votes,     \* table vote:    set of [id, user, post, value]
    req,       \* per worker, the request it serves or the response it sent last
    now,       \* the clock read by dt.datetime.utcnow
    last,      \* history: what the latest change of the store did when it was a
               \* vote commit, and the post's votes before it
    feed       \* the latest response of the feed (GET / or GET /api/posts)

vars == <<users, posts, tags, comments, votes, req, now, last, feed>>

----------------------------------------------------------------------------
(* Bounds of the model *)

MaxPostId == 2
MaxVoteId == 2
MaxCommentId == 1
MaxTime == 2
MaxPage == 3
MaxPerPage == 3
MaxRacePosts == 1
MaxFeedPosts == 3
MaxFeedTime == 1

Reqs == {"w1", "w2"}

----------------------------------------------------------------------------
(* Text *)

Lower(c) == IF c = "A" THEN "a" ELSE IF c = "B" THEN "b" ELSE c

LowerStr(s) == [i \in 1..Len(s) |-> Lower(s[i])]

IsSpace(c) == c = " "

IsWord(c) == c \in {"a", "b", "A", "B", "c", "1", "_"}

RECURSIVE LStrip(_)
LStrip(s) == IF s # <<>> /\ IsSpace(Head(s)) THEN LStrip(Tail(s)) ELSE s

RECURSIVE RStrip(_)
RStrip(s) ==
    IF s # <<>> /\ IsSpace(s[Len(s)]) THEN RStrip(SubSeq(s, 1, Len(s) - 1)) ELSE s

Strip(s) == RStrip(LStrip(s))

RECURSIVE LStripHash(_)
LStripHash(s) == IF s # <<>> /\ Head(s) = "#" THEN LStripHash(Tail(s)) ELSE s

\* str.split(','): the pieces between the commas, empty pieces included
RECURSIVE SplitComma(_, _)
SplitComma(s, cur) ==
    IF s = <<>> THEN <<cur>>
    ELSE IF Head(s) = "," THEN <<cur>> \o SplitComma(Tail(s), <<>>)
    ELSE SplitComma(Tail(s), Append(cur, Head(s)))

Range(f) == {f[i] : i \in DOMAIN f}

MaxOf(S) == IF S = {} THEN 0 ELSE CHOOSE m \in S : \A x \in S : x <= m

\* SQLite's rowid for an INTEGER PRIMARY KEY without AUTOINCREMENT
NextId(rows) == MaxOf({x.id : x \in rows}) + 1

----------------------------------------------------------------------------
(* Tag normalizer *)

\* the end of the run of \w characters that starts at position i
RECURSIVE WordEnd(_, _)
WordEnd(s, i) == IF i < Len(s) /\ IsWord(s[i + 1]) THEN WordEnd(s, i + 1) ELSE i

\* HASHTAG_REGEX = (?<!&)#(\w+), every match lowercased
extract_hashtags(text) ==
    IF text = <<>> THEN {}
    ELSE { LowerStr(SubSeq(text, i + 1, WordEnd(text, i + 1))) :
             i \in { k \in 1..(Len(text) - 1) :
                       /\ text[k] = "#"
                       /\ (k = 1 \/ text[k - 1] # "&")
                       /\ IsWord(text[k + 1]) } }

\* set(filter(None, [t.strip().lower().lstrip('#') for t in tags_input.split(',')]))
manual_tags(tags_input) ==
    { LStripHash(LowerStr(Strip(t))) : t \in Range(SplitComma(tags_input, <<>>)) }
        \ {<<>>}

\* the names the "Create or find existing tags" loop goes through
TagNames(title, content, tags_input) ==
    ((IF tags_input # <<>> THEN manual_tags(tags_input) ELSE {})
        \cup extract_hashtags(title) \cup extract_hashtags(content)) \ {<<>>}

\* a mutant of TagByName: the look-up finds nothing
TagByName_Never(tbl, name) == {}

\* Tag.query.filter_by(name=name).first()
TagByName(tbl, name) == {t \in tbl : t.name = name}

\* the loop: an existing Tag is reused, a missing one is created; the new rows
\* take the next ids in the order the Python set is iterated, which is any order
NewTagRows(tbl, names) ==
    LET missing == {n \in names : TagByName(tbl, n) = {}}
        base == MaxOf({t.id : t \in tbl})
        ids == (base + 1)..(base + Cardinality(missing))
    IN  { {[id |-> f[n], name |-> n] : n \in missing} :
            f \in {g \in [missing -> ids] : \A a, b \in missing : a # b => g[a] # g[b]} }

TagIds(tbl, names) == {t.id : t \in {x \in tbl : x.name \in names}}

----------------------------------------------------------------------------
(* Auth gateway: registration *)

\* re.fullmatch(r'[A-Za-z0-9_]{3,20}', username)
UsernameOk(u) == Len(u) >= 3 /\ Len(u) <= 20 /\ \A i \in 1..Len(u) : IsWord(u[i])

\* re.fullmatch(r'[^@\s]+@[^@\s]+\.[^@\s]+', email)
EmailOk(e) ==
    \E i \in 1..Len(e) :
        /\ e[i] = "@"
        /\ i > 1
        /\ \A k \in 1..Len(e) : ~IsSpace(e[k]) /\ (e[k] = "@" => k = i)
        /\ \E j \in (i + 2)..(Len(e) - 1) : e[j] = "."

RegErrors(tbl, username, email, password) ==
    (IF ~UsernameOk(username) \/ \E u \in tbl : u.username = username
        THEN {"username"} ELSE {})
    \cup (IF ~EmailOk(email) \/ \E u \in tbl : u.email = email THEN {"email"} ELSE {})
    \cup (IF Len(password) < 6 THEN {"password"} ELSE {})

Pw == <<"1", "1", "1", "1", "1", "1">>

LedgerRegInputs ==
    { [username |-> <<"a", "b", "c">>, email |-> <<"a", "@", "b", ".", "c">>, password |-> Pw],
      [username |-> <<"b", "a", "b">>, email |-> <<"b", "@", "b", ".", "c">>, password |-> Pw],
      [username |-> <<"a", "b">>, email |-> <<"a", "b", ".", "c">>, password |-> <<"1">>] }

Register(in) ==
    LET username == Strip(in.username)
        email == LowerStr(Strip(in.email))
    IN  /\ users' = IF RegErrors(users, username, email, in.password) # {}
                      THEN users
                      ELSE users \cup {[id |-> NextId(users), username |-> username,
                                        email |-> email]}
        /\ UNCHANGED <<posts, tags, comments, votes, req, now, last, feed>>

----------------------------------------------------------------------------
(* Requests in flight *)

Idle ==
    [pc |-> "idle", kind |-> "none", user |-> 0, post |-> 0, value |-> 0,
     seenId |-> 0, seenValue |-> 0, status |-> 0, err |-> "none",
     up |-> 0, down |-> 0, afterUp |-> 0, afterDown |-> 0, quiet |-> FALSE,
     form |-> [username |-> <<>>, email |-> <<>>, password |-> <<>>], errors |-> {},
     input |-> [title |-> <<>>, content |-> <<>>, tags |-> <<>>]]

NoCommit == [kind |-> "none", user |-> 0, post |-> 0, value |-> 0, id |-> 0, before |-> {}]

UserIds == {u.id : u \in users}

PostIds == 1..MaxPostId

PostById(p) == {x \in posts : x.id = p}

\* a mutant of CountVotes: the count forgets the value filter
CountVotes_AnyValue(tbl, p, val) == Cardinality({v \in tbl : v.post = p})

\* Vote.query.filter_by(post_id=p, value=val).count()
CountVotes(tbl, p, val) == Cardinality({v \in tbl : v.post = p /\ v.value = val})

\* Post.votes: the rows the relationship loads for post p
PostVotes(tbl, p) == {v \in tbl : v.post = p}

RECURSIVE SumValues(_)
SumValues(rows) ==
    IF rows = {} THEN 0
    ELSE LET v == CHOOSE x \in rows : TRUE IN v.value + SumValues(rows \ {v})

\* Post.score
score(tbl, p) == IF PostVotes(tbl, p) # {} THEN SumValues(PostVotes(tbl, p)) ELSE 0

\* another session's commit changed the vote table: the counts a request took
\* right after its own commit are no longer those of the store
Disturb(rq, r) ==
    [x \in Reqs |-> IF x # r /\ rq[x].pc \in {"countUp", "countDown"}
                      THEN [rq[x] EXCEPT !.quiet = FALSE] ELSE rq[x]]

\* requests that have read "no row" and will INSERT at their commit
Inserting(kind) == {x \in Reqs : req[x].pc = "commit" /\ req[x].kind = kind /\ req[x].seenId = 0}

\* the response of a request that ends before its commit
Refuse(kind, status) == [Idle EXCEPT !.pc = "done", !.kind = kind, !.status = status]

----------------------------------------------------------------------------
(* Auth gateway: a registration request, from its validation to its commit *)

\* request.form of POST /register
RegInputs ==
    { [username |-> <<"a", "b", "c">>, email |-> <<"a", "@", "b", ".", "c">>, password |-> Pw],
      [username |-> <<" ", "a", "b", "c">>, email |-> <<"A", "@", "b", ".", "c", " ">>,
       password |-> Pw],
      [username |-> <<"b", "a", "b">>, email |-> <<"b", "@", "b", ".", "c">>, password |-> Pw],
      [username |-> <<"a", "b", "c">>, email |-> <<"b", "@", "b", ".", "c">>, password |-> Pw],
      [username |-> <<"a", "b">>, email |-> <<"b", "@", "b", ".", "c">>, password |-> Pw],
      [username |-> <<"b", "a", "b">>, email |-> <<"a", "b", ".", "c">>, password |-> Pw],
      [username |-> <<"b", "a", "b">>, email |-> <<"b", "@", "b", ".", "c">>,
       password |-> <<"1", "1", "1", "1", "1">>],
      [username |-> <<"a", " ", "b">>, email |-> <<"a", "@", "@", "b", ".", "c">>,
       password |-> <<>>] }

\* the form as the handler reads it: username stripped, email stripped and lowered
RegForm(in) ==
    [username |-> Strip(in.username), email |-> LowerStr(Strip(in.email)),
     password |-> in.password]

\* the validations of register, against the user table as the queries find it;
\* with errors the request ends in a 400, without it goes on to its commit
RegisterBegin(r, in) ==
    LET f == RegForm(in)
        errors == RegErrors(users, f.username, f.email, f.password)
    IN  /\ req[r].pc \in {"idle", "done"}
        /\ req' = [req EXCEPT ![r] =
              IF errors # {}
                THEN [Idle EXCEPT !.pc = "done", !.kind = "register", !.status = 400,
                                  !.form = f, !.errors = errors]
                ELSE [Idle EXCEPT !.pc = "commit", !.kind = "register", !.form = f]]
        /\ UNCHANGED <<users, posts, tags, comments, votes, now, last, feed>>

\* unique=True on User.username and on User.email
UserUniqueOk(tbl, username, email) ==
    ~ \E u \in tbl : u.username = username \/ u.email = email

\* db.session.add(user); db.session.commit(); login_user(user): the slot's user
\* is the user the session is bound to.  A refused INSERT raises out of the handler.
RegisterCommit(r) ==
    LET f == req[r].form
    IN  /\ req[r].pc = "commit"
        /\ req[r].kind = "register"
        /\ IF UserUniqueOk(users, f.username, f.email)
             THEN /\ users' = users \cup {[id |-> NextId(users), username |-> f.username,
                                           email |-> f.email]}
                  /\ req' = [req EXCEPT ![r] =
                        [Idle EXCEPT !.pc = "done", !.kind = "register", !.status = 302,
                                     !.form = f, !.user = NextId(users)]]
             ELSE /\ users' = users
                  /\ req' = [req EXCEPT ![r] =
                        [Idle EXCEPT !.pc = "done", !.kind = "register", !.status = 500,
                                     !.err = "IntegrityError", !.form = f]]
        /\ UNCHANGED <<posts, tags, comments, votes, now, last, feed>>

----------------------------------------------------------------------------
(* Post repository: post_new, post_edit, post_delete *)

PostInputs ==
    { [title |-> <<"#", "A">>, content |-> <<"b">>, tags |-> <<"a">>],
      [title |-> <<"a">>, content |-> <<"#", "b", " ", "&", "#", "B">>, tags |-> <<>>],
      [title |-> <<"b">>, content |-> <<"b">>,
       tags |-> <<"#", "A", ",", " ", "B", ",", " ">>],
      [title |-> <<"a">>, content |-> <<"b">>, tags |-> <<"#", " ", "A">>],
      [title |-> <<" ">>, content |-> <<"b">>, tags |-> <<"a">>] }

LedgerPostInputs ==
    { [title |-> <<"#", "A">>, content |-> <<"b">>, tags |-> <<>>],
      [title |-> <<" ">>, content |-> <<"b">>, tags |-> <<>>] }

post_new(u, in) ==
    LET title == Strip(in.title)
        content == Strip(in.content)
        tags_input == Strip(in.tags)
        names == TagNames(title, content, tags_input)
    IN  /\ u \in UserIds
        /\ NextId(posts) <= MaxPostId
        /\ IF title = <<>> \/ content = <<>>
             THEN UNCHANGED <<posts, tags, last>>
             ELSE \E new \in NewTagRows(tags, names) :
                    /\ tags' = tags \cup new
                    /\ posts' = posts \cup
                          {[id |-> NextId(posts), title |-> title, content |-> content,
                            author |-> u, created_at |-> now,
                            tags |-> TagIds(tags \cup new, names)]}
                    /\ last' = NoCommit
        /\ UNCHANGED <<users, comments, votes, req, now, feed>>

post_edit(u, p, in) ==
    LET title == Strip(in.title)
        content == Strip(in.content)
        tags_input == Strip(in.tags)
        names == TagNames(title, content, tags_input)
    IN  /\ u \in UserIds
        /\ IF PostById(p) = {} \/ (\E x \in PostById(p) : x.author # u)
                \/ title = <<>> \/ content = <<>>
             THEN UNCHANGED <<posts, tags, last>>
             ELSE \E new \in NewTagRows(tags, names), old \in PostById(p) :
                    /\ tags' = tags \cup new
                    /\ posts' = (posts \ {old}) \cup
                          {[old EXCEPT !.title = title, !.content = content,
                                       !.tags = TagIds(tags \cup new, names)]}
                    /\ last' = NoCommit
        /\ UNCHANGED <<users, comments, votes, req, now, feed>>

\* db.session.delete(post): the post, and by cascade its comments and votes
DeleteCascade(tbl, p) == {x \in tbl : x.post # p}

post_delete(u, p) ==
    /\ u \in UserIds
    /\ IF PostById(p) = {} \/ (\E x \in PostById(p) : x.author # u)
         THEN UNCHANGED <<posts, comments, votes, req, last>>
         ELSE /\ posts' = posts \ PostById(p)
              /\ comments' = DeleteCascade(comments, p)
              /\ votes' = DeleteCascade(votes, p)
              /\ req' = IF votes' # votes THEN Disturb(req, "none") ELSE req
              /\ last' = NoCommit
    /\ UNCHANGED <<users, tags, now, feed>>

Tick ==
    /\ now < MaxTime
    /\ now' = now + 1
    /\ UNCHANGED <<users, posts, tags, comments, votes, req, last, feed>>

----------------------------------------------------------------------------
(* Post repository: an edit or delete request, from its look-up to its commit *)

\* the response of an edit or delete request of user u for post id p
Answer(kind, u, p, status) ==
    [Idle EXCEPT !.pc = "done", !.kind = kind, !.user = u, !.post = p, !.status = status]

\* request.form of POST /post/<id>/edit
EditInputs ==
    { [title |-> <<"b">>, content |-> <<"#", "b">>, tags |-> <<>>],
      [title |-> <<" ">>, content |-> <<"b">>, tags |-> <<>>] }

\* post_edit up to the changes: get_or_404, the author check, the form
EditBegin(r, u, p, in) ==
    LET f == [title |-> Strip(in.title), content |-> Strip(in.content),
              tags |-> Strip(in.tags)]
    IN  /\ req[r].pc \in {"idle", "done"}
        /\ u \in UserIds
        /\ req' = [req EXCEPT ![r] =
              IF PostById(p) = {} THEN Answer("edit", u, p, 404)
              ELSE IF \E x \in PostById(p) : x.author # u THEN Answer("edit", u, p, 403)
              ELSE IF f.title = <<>> \/ f.content = <<>> THEN Answer("edit", u, p, 200)
              ELSE [Idle EXCEPT !.pc = "commit", !.kind = "edit", !.user = u, !.post = p,
                                !.input = f]]
        /\ UNCHANGED <<users, posts, tags, comments, votes, now, last, feed>>

\* post_edit from post.title = title to db.session.commit(): the UPDATE is by
\* primary key, of the row that has the id now; with no such row it raises
EditCommit(r) ==
    LET p == req[r].post
        f == req[r].input
        names == TagNames(f.title, f.content, f.tags)
    IN  /\ req[r].pc = "commit"
        /\ req[r].kind = "edit"
        /\ IF PostById(p) = {}
             THEN /\ UNCHANGED <<posts, tags, last>>
                  /\ req' = [req EXCEPT ![r] =
                        [Answer("edit", req[r].user, p, 500) EXCEPT !.err = "StaleDataError"]]
             ELSE \E new \in NewTagRows(tags, names), old \in PostById(p) :
                    /\ tags' = tags \cup new
                    /\ posts' = (posts \ {old}) \cup
                          {[old EXCEPT !.title = f.title, !.content = f.content,
                                       !.tags = TagIds(tags \cup new, names)]}
                    /\ last' = NoCommit
                    /\ req' = [req EXCEPT ![r] = Answer("edit", req[r].user, p, 302)]
        /\ UNCHANGED <<users, comments, votes, now, feed>>

\* post_delete up to db.session.delete(post): get_or_404 and the author check
DeleteBegin(r, u, p) ==
    /\ req[r].pc \in {"idle", "done"}
    /\ u \in UserIds
    /\ req' = [req EXCEPT ![r] =
          IF PostById(p) = {} THEN Answer("delete", u, p, 404)
          ELSE IF \E x \in PostById(p) : x.author # u THEN Answer("delete", u, p, 403)
          ELSE [Idle EXCEPT !.pc = "commit", !.kind = "delete", !.user = u, !.post = p]]
    /\ UNCHANGED <<users, posts, tags, comments, votes, now, last, feed>>

\* db.session.delete(post); db.session.commit(): the DELETE is by primary key, of
\* the row that has the id now, with the comments and votes of that id
DeleteCommit(r) ==
    LET p == req[r].post
    IN  /\ req[r].pc = "commit"
        /\ req[r].kind = "delete"
        /\ posts' = posts \ PostById(p)
        /\ comments' = DeleteCascade(comments, p)
        /\ votes' = DeleteCascade(votes, p)
        /\ req' = [(IF votes' # votes THEN Disturb(req, r) ELSE req)
                     EXCEPT ![r] = Answer("delete", req[r].user, p, 302)]
        /\ last' = NoCommit
        /\ UNCHANGED <<users, tags, now, feed>>

----------------------------------------------------------------------------
(* Vote ledger: post_vote *)

VoteInputs ==
    { [json |-> TRUE, raw |-> "up"], [json |-> TRUE, raw |-> "down"],
      [json |-> TRUE, raw |-> "sideways"],
      [json |-> FALSE, raw |-> "1"], [json |-> FALSE, raw |-> "-1"],
      [json |-> FALSE, raw |-> "0"], [json |-> FALSE, raw |-> "x"] }

\* int(request.form.get('value')): raises for text that is no integer
FormInt(raw) ==
    IF raw = "1" THEN [ok |-> TRUE, value |-> 1]
    ELSE IF raw = "-1" THEN [ok |-> TRUE, value |-> -1]
    ELSE IF raw = "0" THEN [ok |-> TRUE, value |-> 0]
    ELSE IF raw = "2" THEN [ok |-> TRUE, value |-> 2]
    ELSE [ok |-> FALSE, value |-> 0]

\* the JSON branch maps vote_type and never rejects; the form branch rejects
\* what int() refuses and every integer outside (1, -1)
ParseVote(in) ==
    IF in.json
      THEN [ok |-> TRUE,
            value |-> IF in.raw = "up" THEN 1 ELSE IF in.raw = "down" THEN -1 ELSE 0]
      ELSE IF FormInt(in.raw).ok /\ FormInt(in.raw).value \in {1, -1}
             THEN FormInt(in.raw)
             ELSE [ok |-> FALSE, value |-> 0]

\* Vote.query.filter_by(user_id=u, post_id=p).first(); no row is id 0
VoteOf(tbl, u, p) ==
    IF \E v \in tbl : v.user = u /\ v.post = p
      THEN CHOOSE v \in tbl : v.user = u /\ v.post = p
      ELSE [id |-> 0, user |-> u, post |-> p, value |-> 0]

\* a mutant of UniqueOk: the table has no uniqueness constraint
UniqueOk_Unconstrained(tbl, u, p) == TRUE

\* UniqueConstraint('user_id', 'post_id'): may a row for (u, p) be inserted
UniqueOk(tbl, u, p) == ~ \E v \in tbl : v.user = u /\ v.post = p

\* the reads of post_vote: the post, the payload, the user's vote
VoteBegin(r, u, p, in) ==
    LET pv == ParseVote(in)
        seen == VoteOf(votes, u, p)
    IN  /\ req[r].pc \in {"idle", "done"}
        /\ u \in UserIds
        /\ (PostById(p) # {} /\ pv.ok /\ seen.id = 0) =>
              MaxOf({v.id : v \in votes}) + Cardinality(Inserting("vote")) < MaxVoteId
        /\ req' = [req EXCEPT ![r] =
              IF PostById(p) = {} THEN Refuse("vote", 404)
              ELSE IF ~pv.ok THEN Refuse("vote", 400)
              ELSE [Idle EXCEPT !.pc = "commit", !.kind = "vote", !.user = u,
                                !.post = p, !.value = pv.value, !.seenId = seen.id,
                                !.seenValue = seen.value]]
        /\ UNCHANGED <<users, posts, tags, comments, votes, now, last, feed>>

\* a mutant of VoteDelete: the toggle-off deletes nothing
VoteDelete_Nothing(tbl, id) == tbl

\* toggle off: DELETE FROM vote WHERE id = seen
VoteDelete(tbl, id) == {v \in tbl : v.id # id}

\* a mutant of VoteUpdate: the UPDATE has no WHERE clause
VoteUpdate_EveryRow(tbl, id, value) == {[v EXCEPT !.value = value] : v \in tbl}

\* flip: UPDATE vote SET value = ... WHERE id = seen
VoteUpdate(tbl, id, value) ==
    {IF v.id = id THEN [v EXCEPT !.value = value] ELSE v : v \in tbl}

\* create: INSERT INTO vote
VoteInsert(tbl, u, p, value) ==
    tbl \cup {[id |-> NextId(tbl), user |-> u, post |-> p, value |-> value]}

\* db.session.commit() went through; the handler goes on to its two counts
Committed(q, tbl) ==
    [Idle EXCEPT !.pc = "countUp", !.kind = "vote", !.post = q.post, !.quiet = TRUE,
                 !.afterUp = CountVotes(tbl, q.post, 1),
                 !.afterDown = CountVotes(tbl, q.post, -1)]

\* db.session.commit() raised; nothing catches it, the request ends in a 500
Failed(q, e) == [Idle EXCEPT !.pc = "done", !.kind = q.kind, !.status = 500, !.err = e]

\* history of the vote commits: "create", "flip", and "removed" for the toggle-off
\* by the same user with the same value of the vote the commit before created
History(q, op, tbl) ==
    LET h == [kind |-> op, user |-> q.user, post |-> q.post, value |-> q.value,
              id |-> q.seenId, before |-> PostVotes(votes, q.post)]
    IN  IF op = "create" THEN [h EXCEPT !.id = NextId(votes)]
        ELSE IF op = "flip" THEN h
        ELSE IF last.kind = "create" /\ last.id = q.seenId /\ last.user = q.user
                  /\ last.post = q.post /\ last.value = q.value
               THEN [last EXCEPT !.kind = "removed"]
        ELSE IF tbl # votes THEN NoCommit
        ELSE last

VoteCommit(r) ==
    LET q == req[r]
        present == \E v \in votes : v.id = q.seenId
        done(tbl, op) ==
            /\ votes' = tbl
            /\ req' = IF tbl # votes
                        THEN Disturb([req EXCEPT ![r] = Committed(q, tbl)], r)
                        ELSE [req EXCEPT ![r] = Committed(q, tbl)]
            /\ last' = History(q, op, tbl)
        fail(e) ==
            /\ req' = [req EXCEPT ![r] = Failed(q, e)]
            /\ UNCHANGED <<votes, last>>
    IN  /\ q.pc = "commit"
        /\ q.kind = "vote"
        /\ IF q.seenId # 0 /\ q.seenValue = q.value
             THEN done(VoteDelete(votes, q.seenId), "remove")
           ELSE IF q.seenId = 0
             THEN IF UniqueOk(votes, q.user, q.post)
                    THEN NextId(votes) <= MaxVoteId
                         /\ done(VoteInsert(votes, q.user, q.post, q.value), "create")
                    ELSE fail("IntegrityError")
           ELSE IF present
                    THEN done(VoteUpdate(votes, q.seenId, q.value), "flip")
                    ELSE fail("StaleDataError")
        /\ UNCHANGED <<users, posts, tags, comments, now, feed>>

\* upvotes = Vote.query.filter_by(post_id=post.id, value=1).count()
VoteCountUp(r) ==
    /\ req[r].pc = "countUp"
    /\ req' = [req EXCEPT ![r].pc = "countDown",
                          ![r].up = CountVotes(votes, req[r].post, 1)]
    /\ UNCHANGED <<users, posts, tags, comments, votes, now, last, feed>>

\* downvotes = ...count(); return jsonify({'upvotes': ..., 'downvotes': ...})
VoteCountDown(r) ==
    /\ req[r].pc = "countDown"
    /\ req' = [req EXCEPT ![r].pc = "done", ![r].status = 200,
                          ![r].down = CountVotes(votes, req[r].post, -1)]
    /\ UNCHANGED <<users, posts, tags, comments, votes, now, last, feed>>

----------------------------------------------------------------------------
(* Comments: post_comment_api and post_comment *)

CommentInputs == {<<"a">>, <<" ">>}

CommentBegin(r, u, p, content) ==
    /\ req[r].pc \in {"idle", "done"}
    /\ u \in UserIds
    /\ (Strip(content) # <<>> /\ PostById(p) # {}) =>
          MaxOf({c.id : c \in comments}) + Cardinality(Inserting("comment")) < MaxCommentId
    /\ req' = [req EXCEPT ![r] =
          IF Strip(content) = <<>> THEN Refuse("comment", 400)
          ELSE IF PostById(p) = {} THEN Refuse("comment", 404)
          ELSE [Idle EXCEPT !.pc = "commit", !.kind = "comment", !.user = u, !.post = p]]
    /\ UNCHANGED <<users, posts, tags, comments, votes, now, last, feed>>

CommentCommit(r) ==
    /\ req[r].pc = "commit"
    /\ req[r].kind = "comment"
    /\ NextId(comments) <= MaxCommentId
    /\ comments' = comments \cup
          {[id |-> NextId(comments), post |-> req[r].post, author |-> req[r].user]}
    /\ req' = [req EXCEPT ![r] =
          [Idle EXCEPT !.pc = "done", !.kind = "comment", !.status = 200]]
    /\ last' = NoCommit
    /\ UNCHANGED <<users, posts, tags, votes, now, feed>>

----------------------------------------------------------------------------
(* Feed ranker: index and api_posts *)

\* a LIKE b after both sides are lowercased (ilike): % is any run, _ any character
RECURSIVE Like(_, _)
Like(pat, s) ==
    IF pat = <<>> THEN s = <<>>
    ELSE IF Head(pat) = "%" THEN Like(Tail(pat), s) \/ (s # <<>> /\ Like(pat, Tail(s)))
    ELSE /\ s # <<>>
         /\ Head(pat) = "_" \/ Lower(Head(pat)) = Lower(Head(s))
         /\ Like(Tail(pat), Tail(s))

\* like = f"%{q}%"
Pattern(q) == <<"%">> \o q \o <<"%">>

\* the rows of post JOIN user LEFT JOIN post_tags LEFT JOIN tag; a post
\* without tags joins one row whose tag columns are NULL
JoinRows ==
    UNION { LET own == {t \in tags : t.id \in x.tags}
                author == CHOOSE u \in users : u.id = x.author
            IN  IF own = {}
                  THEN {[post |-> x, username |-> author.username, tagged |-> FALSE,
                         name |-> <<>>]}
                  ELSE {[post |-> x, username |-> author.username, tagged |-> TRUE,
                         name |-> t.name] : t \in own}
            : x \in {y \in posts : \E u \in users : u.id = y.author} }

\* db.or_(Post.title.ilike(like), Post.content.ilike(like),
\*        User.username.ilike(like), Tag.name.ilike(like))
RowMatches(row, q) ==
    \/ Like(Pattern(q), row.post.title)
    \/ Like(Pattern(q), row.post.content)
    \/ Like(Pattern(q), row.username)
    \/ row.tagged /\ Like(Pattern(q), row.name)

\* the posts the query returns: all of them, or with q the DISTINCT posts of the
\* joined rows that pass the filter
Matching(q) ==
    IF q = <<>> THEN {x.id : x \in posts}
    ELSE {row.post.id : row \in {j \in JoinRows : RowMatches(j, q)}}

PostRow(id) == CHOOSE x \in posts : x.id = id

\* a mutant of KeyGreater: the sort key is the score alone
KeyGreater_ScoreOnly(a, b) == score(votes, a) > score(votes, b)

\* key=lambda p: (p.score, p.created_at): is the key of a greater than that of b
KeyGreater(a, b) ==
    \/ score(votes, a) > score(votes, b)
    \/ /\ score(votes, a) = score(votes, b)
       /\ PostRow(a).created_at > PostRow(b).created_at

\* list.sort(..., reverse=True): descending and stable, so x goes behind every
\* element whose key is not smaller than its own
RECURSIVE InsertDesc(_, _)
InsertDesc(sorted, x) ==
    IF sorted = <<>> THEN <<x>>
    ELSE IF KeyGreater(x, Head(sorted)) THEN <<x>> \o sorted
    ELSE <<Head(sorted)>> \o InsertDesc(Tail(sorted), x)

RECURSIVE SortDesc(_)
SortDesc(seq) ==
    IF seq = <<>> THEN <<>>
    ELSE InsertDesc(SortDesc(SubSeq(seq, 1, Len(seq) - 1)), seq[Len(seq)])

\* the orders in which query.all() may return the rows (the query has no ORDER BY)
Orders(ids) ==
    { f \in [1..Cardinality(ids) -> ids] : \A i, j \in DOMAIN f : i # j => f[i] # f[j] }

Min(a, b) == IF a < b THEN a ELSE b

Max(a, b) == IF a > b THEN a ELSE b

\* Python's seq[start:end]: a negative index counts from the end, and both are
\* clipped to the list
PySlice(seq, start, end) ==
    LET n == Len(seq)
        lo == IF start < 0 THEN Max(start + n, 0) ELSE Min(start, n)
        hi == IF end < 0 THEN Max(end + n, 0) ELSE Min(end, n)
    IN  IF hi <= lo THEN <<>> ELSE SubSeq(seq, lo + 1, hi)

\* a mutant of PageStart: pages counted from 0
PageStart_ZeroBased(page, per_page) == page * per_page

\* start = (page - 1) * per_page
PageStart(page, per_page) == (page - 1) * per_page

\* end = start + per_page
PageEnd(page, per_page) == PageStart(page, per_page) + per_page

\* 'has_more': end < len(posts)
HasMore(page, per_page, n) == PageEnd(page, per_page) < n

FeedQueries == {<<>>, <<"A">>, <<" ">>}

Feed(route, q0, page, per_page, order) ==
    LET q == Strip(q0)
        ordered == SortDesc(order)
        items == PySlice(ordered, PageStart(page, per_page), PageEnd(page, per_page))
    IN  [route |-> route, q |-> q, page |-> page, per_page |-> per_page,
         ordered |-> ordered, items |-> items,
         scores |-> [i \in DOMAIN items |-> score(votes, items[i])],
         counts |-> IF route = "index"
                      THEN [i \in DOMAIN items |->
                              <<CountVotes(votes, items[i], 1),
                                CountVotes(votes, items[i], -1)>>]
                      ELSE <<>>,
         has_more |-> route = "api" /\ HasMore(page, per_page, Len(ordered))]

index(q, page, per_page) ==
    /\ \E order \in Orders(Matching(Strip(q))) :
          feed' = Feed("index", q, page, per_page, order)
    /\ UNCHANGED <<users, posts, tags, comments, votes, req, now, last>>

api_posts(q, page, per_page) ==
    /\ \E order \in Orders(Matching(Strip(q))) :
          feed' = Feed("api", q, page, per_page, order)
    /\ UNCHANGED <<users, posts, tags, comments, votes, req, now, last>>

----------------------------------------------------------------------------
(* The application *)

NoFeed == [route |-> "none", q |-> <<>>, page |-> 0, per_page |-> 0,
           ordered |-> <<>>, items |-> <<>>, scores |-> <<>>, counts |-> <<>>,
           has_more |-> FALSE]

Init ==
    /\ users = {}
    /\ posts = {}
    /\ tags = {}
    /\ comments = {}
    /\ votes = {}
    /\ req = [r \in Reqs |-> Idle]
    /\ now = 0
    /\ last = NoCommit
    /\ feed = NoFeed

\* a JSON payload for +1, a form payload for -1, and one the form branch rejects
RaceVoteInputs == {in \in VoteInputs : in.raw \in {"up", "-1", "x"}}

\* one worker: requests follow one another, the other handlers run between
\* a request's statements
Next ==
    \/ \E in \in LedgerRegInputs : Register(in)
    \/ \E u \in 1..2, in \in LedgerPostInputs : post_new(u, in)
    \/ \E u \in 1..2, p \in PostIds : post_delete(u, p)
    \/ \E u \in 1..2, p \in PostIds, in \in VoteInputs : VoteBegin("w1", u, p, in)
    \/ VoteCommit("w1")
    \/ VoteCountUp("w1")
    \/ VoteCountDown("w1")
    \/ \E u \in 1..2, p \in PostIds, c \in CommentInputs : CommentBegin("w1", u, p, c)
    \/ CommentCommit("w1")

Spec == Init /\ [][Next]_vars

\* two workers serve vote requests at the same time
RaceNext ==
    \/ \E in \in LedgerRegInputs : Register(in)
    \/ \E u \in 1..2, in \in LedgerPostInputs :
          Cardinality(posts) < MaxRacePosts /\ post_new(u, in)
    \/ \E u \in 1..2, p \in 1..MaxRacePosts : post_delete(u, p)
    \/ \E r \in Reqs, u \in 1..2, p \in 1..MaxRacePosts, in \in RaceVoteInputs :
          VoteBegin(r, u, p, in)
    \/ \E r \in Reqs : VoteCommit(r)
    \/ \E r \in Reqs : VoteCountUp(r)
    \/ \E r \in Reqs : VoteCountDown(r)

RaceSpec == Init /\ [][RaceNext]_vars

----------------------------------------------------------------------------
(* The feed over the stores that a history of registrations, posts and votes leaves *)

FeedUsers ==
    { [id |-> 1, username |-> <<"a", "b", "c">>, email |-> <<"a", "@", "b", ".", "c">>],
      [id |-> 2, username |-> <<"b", "1", "b">>, email |-> <<"b", "@", "b", ".", "c">>] }

\* the form and the author of the i-th post
FeedPostInput(i) ==
    LET k == ((i - 1) % 4) + 1
    IN  IF k = 1 THEN [author |-> 1, title |-> <<"a">>, content |-> <<"b">>, tags |-> <<>>]
        ELSE IF k = 2
          THEN [author |-> 2, title |-> <<"b">>, content |-> <<"b">>, tags |-> <<>>]
        ELSE IF k = 3
          THEN [author |-> 2, title |-> <<"#", "A">>, content |-> <<"b">>, tags |-> <<>>]
        ELSE [author |-> 2, title |-> <<"b">>, content |-> <<"b">>, tags |-> <<"a">>]

FeedTagNames(i) ==
    TagNames(FeedPostInput(i).title, FeedPostInput(i).content, FeedPostInput(i).tags)

\* the tag table after the first n posts were submitted
RECURSIVE FeedTags(_)
FeedTags(n) ==
    IF n = 0 THEN {}
    ELSE FeedTags(n - 1) \cup
            (CHOOSE new \in NewTagRows(FeedTags(n - 1), FeedTagNames(n)) : TRUE)

\* n posts created at the times given, each voted up, down or not at all by user 1
FeedInit ==
    \E n \in 0..MaxFeedPosts :
      \E times \in [1..n -> 0..MaxFeedTime], vt \in [1..n -> {-1, 0, 1}] :
        /\ \A i, j \in 1..n : i < j => times[i] <= times[j]
        /\ users = FeedUsers
        /\ posts = { [id |-> i, title |-> FeedPostInput(i).title,
                      content |-> FeedPostInput(i).content,
                      author |-> FeedPostInput(i).author, created_at |-> times[i],
                      tags |-> TagIds(FeedTags(i), FeedTagNames(i))] : i \in 1..n }
        /\ tags = FeedTags(n)
        /\ comments = {}
        /\ votes = { [id |-> Cardinality({j \in 1..i : vt[j] # 0}), user |-> 1,
                      post |-> i, value |-> vt[i]] : i \in {k \in 1..n : vt[k] # 0} }
        /\ req = [r \in Reqs |-> Idle]
        /\ now = MaxFeedTime
        /\ last = NoCommit
        /\ feed = NoFeed

\* the feed changes nothing in the store, so a second request meets the states of
\* the first: every store is asked once, with every query and page
FeedNext ==
    \/ /\ feed = NoFeed
       /\ \E q \in FeedQueries, page \in 0..MaxPage, per_page \in 0..MaxPerPage :
             index(q, page, per_page)
    \/ /\ feed = NoFeed
       /\ \E q \in FeedQueries, page \in 0..MaxPage, per_page \in 0..MaxPerPage :
             api_posts(q, page, per_page)

FeedSpec == FeedInit /\ [][FeedNext]_vars

----------------------------------------------------------------------------
(* Posts and their tags: creations, edits and deletions *)

TagNext ==
    \/ \E in \in LedgerRegInputs : Register(in)
    \/ \E u \in 1..2, in \in PostInputs : post_new(u, in)
    \/ \E u \in 1..2, p \in PostIds, in \in PostInputs : post_edit(u, p, in)
    \/ \E u \in 1..2, p \in PostIds : post_delete(u, p)
    \/ Tick

TagSpec == Init /\ [][TagNext]_vars

----------------------------------------------------------------------------
(* Registrations served by two workers *)

RegNext ==
    \/ \E r \in Reqs, in \in RegInputs : RegisterBegin(r, in)
    \/ \E r \in Reqs : RegisterCommit(r)

RegSpec == Init /\ [][RegNext]_vars

----------------------------------------------------------------------------
(* Edits and deletions served by two workers, among posts, votes and comments *)

\* the JSON payload of an upvote
OwnerVoteInputs == {in \in VoteInputs : in.raw = "up"}

OwnerNext ==
    \/ \E in \in LedgerRegInputs : Register(in)
    \/ \E u \in 1..2, in \in LedgerPostInputs :
          Cardinality(posts) < MaxRacePosts /\ post_new(u, in)
    \/ \E r \in Reqs, u \in 1..2, p \in 1..MaxRacePosts, in \in EditInputs :
          EditBegin(r, u, p, in)
    \/ \E r \in Reqs : EditCommit(r)
    \/ \E r \in Reqs, u \in 1..2, p \in 1..MaxRacePosts : DeleteBegin(r, u, p)
    \/ \E r \in Reqs : DeleteCommit(r)
    \/ \E u \in 1..2, p \in 1..MaxRacePosts, in \in OwnerVoteInputs :
          VoteBegin("w1", u, p, in)
    \/ VoteCommit("w1")
    \/ VoteCountUp("w1")
    \/ VoteCountDown("w1")
    \/ \E u \in 1..2, p \in 1..MaxRacePosts, c \in CommentInputs :
          CommentBegin("w1", u, p, c)
    \/ CommentCommit("w1")

OwnerSpec == Init /\ [][OwnerNext]_vars

----------------------------------------------------------------------------
(* Properties of the vote ledger *)

VoteRequests == {r \in Reqs : req[r].kind = "vote"}

\* C1: in every reachable state there is at most one Vote row for each
\* (user, post) pair, whatever castVote requests, post deletions and
\* registrations ran and however they interleaved.
C1_OneVotePerPair ==
    \A v1, v2 \in votes : (v1.user = v2.user /\ v1.post = v2.post) => v1 = v2

\* a second INSERT for the pair was refused by the constraint, the first row stands
C1_Witness ==
    \E r \in Reqs : req[r].err = "IntegrityError" /\ votes # {}

\* C2: castVote answers 400 to every value outside {+1,-1}, on the JSON route
\* and on the form route, so no request with another value reaches its commit
\* and every stored Vote has value +1 or -1.
C2_InvalidRejected ==
    /\ \A v \in votes : v.value \in {1, -1}
    /\ \A r \in VoteRequests : req[r].pc = "commit" => req[r].value \in {1, -1}

\* C3: a castVote request whose commit violates the uniqueness constraint
\* ends in a conflict response (409), not in an unhandled failure (500).
C3_ConflictSurfaced ==
    \A r \in VoteRequests : req[r].err = "IntegrityError" => req[r].status = 409

\* the numbers of rows of a post with value +1 and -1, and the sum of the values,
\* read off a set of rows
Ups(rows, p) == Cardinality({v \in rows : v.post = p /\ v.value = 1})

Downs(rows, p) == Cardinality({v \in rows : v.post = p /\ v.value = -1})

Net(rows, p) == Ups(rows, p) - Downs(rows, p)

\* C4: from a state where the user has no vote on the post, castVote(user, post, v)
\* with v in {+1,-1} creates the vote, and the same request made again removes it:
\* the post's Votes, its upvote and downvote counts and its score are then what
\* they were before the first request.
C4_TwiceIsRemoval ==
    LET p == last.post
        created == [id |-> last.id, user |-> last.user, post |-> p, value |-> last.value]
    IN  last.value \in {1, -1} =>
          /\ last.kind = "create" =>
                /\ \A v \in last.before : v.user # last.user
                /\ created \notin last.before
                /\ PostVotes(votes, p) = last.before \cup {created}
          /\ last.kind = "removed" =>
                /\ PostVotes(votes, p) = last.before
                /\ CountVotes(votes, p, 1) = Ups(last.before, p)
                /\ CountVotes(votes, p, -1) = Downs(last.before, p)
                /\ score(votes, p) = Net(last.before, p)

\* the second of two like requests has just committed, next to other users' votes
C4_Witness ==
    last.kind = "removed" /\ last.value \in {1, -1} /\ last.before # {}

\* C5: when the user has a vote of value -v on the post, castVote(user, post, v)
\* with v in {+1,-1} changes that same row to v and neither deletes nor adds a
\* row: the count for v rises by one, the count for -v falls by one and the
\* score changes by 2v.
C5_FlipInPlace ==
    LET p == last.post
        v == last.value
    IN  \A old \in last.before :
          (last.kind = "flip" /\ v \in {1, -1} /\ old.id = last.id
              /\ old.user = last.user /\ old.value = -v)
          => /\ PostVotes(votes, p) = (last.before \ {old}) \cup {[old EXCEPT !.value = v]}
             /\ Cardinality(votes) = Cardinality(votes \ PostVotes(votes, p))
                                        + Cardinality(last.before)
             /\ CountVotes(votes, p, v) = CountVotes(last.before, p, v) + 1
             /\ CountVotes(votes, p, -v) = CountVotes(last.before, p, -v) - 1
             /\ score(votes, p) = score(last.before, p) + 2 * v

\* a vote has just been flipped from -v to v, next to another user's vote
C5_Witness ==
    /\ last.kind = "flip"
    /\ last.value \in {1, -1}
    /\ \E old \in last.before :
          old.id = last.id /\ old.user = last.user /\ old.value = -last.value
    /\ Cardinality(last.before) > 1

\* what C6 says of every post
ScoreIsNet ==
    \A p \in PostIds :
        /\ score(votes, p) = Net(votes, p)
        /\ CountVotes(votes, p, 1) = Ups(votes, p)
        /\ CountVotes(votes, p, -1) = Downs(votes, p)

Answered == {r \in VoteRequests : req[r].pc = "done" /\ req[r].status = 200}

C9_NoOrphans ==
    /\ \A v \in votes : PostById(v.post) # {}
    /\ \A c \in comments : PostById(c.post) # {}

----------------------------------------------------------------------------
(* Properties of the feed *)

CreatedAt(id) == (CHOOSE x \in posts : x.id = id).created_at

\* p may stand before q: higher score, or equal score and not older
MayPrecede(p, q) ==
    \/ Net(votes, p) > Net(votes, q)
    \/ Net(votes, p) = Net(votes, q) /\ CreatedAt(p) >= CreatedAt(q)

\* C7: the feed (GET / and GET /api/posts) lists the matching posts by score
\* descending and, at equal score, by creation time descending; each matching
\* post is in the ordered result exactly once.
C7_FeedOrdered ==
    feed.route # "none" =>
      /\ Range(feed.ordered) = Matching(feed.q)
      /\ Len(feed.ordered) = Cardinality(Matching(feed.q))
      /\ \A i, j \in DOMAIN feed.ordered :
            i < j => MayPrecede(feed.ordered[i], feed.ordered[j])
      /\ \A i, j \in DOMAIN feed.items :
            i < j => MayPrecede(feed.items[i], feed.items[j])

\* a newer post listed before an older one of equal score, both before a post of
\* lower score
C7_Witness ==
    /\ feed.route # "none"
    /\ Len(feed.items) = 3
    /\ Net(votes, feed.items[1]) = Net(votes, feed.items[2])
    /\ CreatedAt(feed.items[1]) > CreatedAt(feed.items[2])
    /\ Net(votes, feed.items[2]) > Net(votes, feed.items[3])
    /\ feed.items[1] > feed.items[3]

RECURSIVE PagesUpTo(_, _, _)
PagesUpTo(seq, per_page, k) ==
    IF k = 0 THEN <<>>
    ELSE PagesUpTo(seq, per_page, k - 1)
            \o PySlice(seq, PageStart(k, per_page), PageEnd(k, per_page))

\* C8: for page >= 1, per_page >= 1 and N matching posts, GET /api/posts returns
\* the posts at positions [(page-1)*per_page, min(page*per_page, N)) of the ordered
\* result, has_more is true exactly when page*per_page < N, and the pages 1, 2, ...
\* follow one another without overlap and hold every matching post once.
C8_Pages ==
    (feed.route = "api" /\ feed.page >= 1 /\ feed.per_page >= 1) =>
      LET N == Len(feed.ordered)
          lo == (feed.page - 1) * feed.per_page
          hi == Min(feed.page * feed.per_page, N)
      IN  /\ feed.items = [i \in 1..Max(hi - lo, 0) |-> feed.ordered[lo + i]]
          /\ feed.has_more = (feed.page * feed.per_page < N)
          /\ \A k \in 0..N :
                Len(PagesUpTo(feed.ordered, feed.per_page, k)) = Min(k * feed.per_page, N)
          /\ PagesUpTo(feed.ordered, feed.per_page, N) = feed.ordered

\* the last, partly filled page of three posts in pages of two
C8_Witness ==
    /\ feed.route = "api"
    /\ feed.page = 2
    /\ feed.per_page = 2
    /\ Len(feed.ordered) = 3
    /\ feed.items = <<feed.ordered[3]>>
    /\ ~feed.has_more

----------------------------------------------------------------------------
(* Properties of the tags *)

\* C10: after any sequence of post creations and edits every Tag name is
\* lowercase and no two Tag rows have the same name or names that differ only in
\* letter case; a post is associated with the existing row of each of its names.
C10_TagsCanonical ==
    /\ \A t \in tags : \A i \in DOMAIN t.name : t.name[i] \notin {"A", "B"}
    /\ \A t1, t2 \in tags :
          (LowerStr(t1.name) = LowerStr(t2.name) \/ t1.id = t2.id) => t1 = t2
    /\ \A x \in posts : x.tags \subseteq {t.id : t \in tags}

\* two posts share the one row of a tag that was submitted in both cases
C10_Witness ==
    /\ Cardinality(tags) = 2
    /\ \E x, y \in posts : x.id # y.id /\ x.tags \cap y.tags # {}
    /\ \E x \in posts : Cardinality(x.tags) = 2

----------------------------------------------------------------------------
(* Properties of registration *)

RegRequests == {r \in Reqs : req[r].kind = "register"}

\* the format rules of a registration form, by field
FormatOffending(f) ==
    (IF UsernameOk(f.username) THEN {} ELSE {"username"})
    \cup (IF EmailOk(f.email) THEN {} ELSE {"email"})
    \cup (IF Len(f.password) >= 6 THEN {} ELSE {"password"})

\* the fields of a form whose value a User of the table already has
TakenFields(f, tbl) ==
    (IF \E u \in tbl : u.username = f.username THEN {"username"} ELSE {})
    \cup (IF \E u \in tbl : u.email = f.email THEN {"email"} ELSE {})

\* no two Users share a username or an email
UsersUnique ==
    \A u \in users, v \in users : (u.username = v.username \/ u.email = v.email) => u = v

\* C11: a registration request either creates its User and binds the session to
\* it, or it breaks a rule (username format, email format, password length,
\* username taken, email taken) and is then rejected with a 400 whose errors are
\* keyed to the offending fields, with no User created and no session; and no
\* two Users ever share a username or an email.
C11_RejectedByField ==
    /\ UsersUnique
    /\ \A r \in RegRequests :
          /\ req[r].pc = "commit" => FormatOffending(req[r].form) = {}
          /\ req[r].pc = "done" =>
                IF req[r].user # 0
                  THEN /\ req[r].status = 302
                       /\ FormatOffending(req[r].form) = {}
                       /\ \E u \in users : /\ u.id = req[r].user
                                            /\ u.username = req[r].form.username
                                            /\ u.email = req[r].form.email
                  ELSE /\ req[r].status = 400
                       /\ req[r].errors # {}
                       /\ FormatOffending(req[r].form) \subseteq req[r].errors
                       /\ req[r].errors \subseteq
                             FormatOffending(req[r].form) \cup TakenFields(req[r].form, users)
                       /\ ~ \E u \in users : u.id = req[r].user

----------------------------------------------------------------------------
(* Properties of post ownership *)

\* the edit and delete requests that commit in this step
Committing(r) ==
    /\ req[r].pc = "commit"
    /\ req[r].kind \in {"edit", "delete"}
    /\ req'[r].pc = "done"

\* an edit or delete request is looked up and answered in this step
Arriving(r) ==
    /\ req[r].pc \in {"idle", "done"}
    /\ req'[r] # req[r]
    /\ req'[r].kind \in {"edit", "delete"}

\* a non-author's edit or delete request for an existing post ends in a 403 and
\* leaves the post, its tags, comments and votes as they were
NonAuthorRefused ==
    \A r \in Reqs :
        (Arriving(r) /\ \E x \in posts : x.id = req'[r].post /\ x.author # req'[r].user)
        => /\ req'[r].pc = "done"
           /\ req'[r].status = 403
           /\ posts' = posts /\ tags' = tags /\ comments' = comments /\ votes' = votes

\* C12: a post's title, content, tags and existence change only in the commit of
\* an edit or delete request of its author, and an edit or delete request of a
\* user who is not the author of the existing post ends in a 403 and changes
\* neither the post nor its tags, comments and votes.
C12_OnlyTheAuthor ==
    [][ /\ \A x \in posts : x \notin posts' =>
              \E r \in Reqs : Committing(r) /\ req[r].post = x.id /\ req[r].user = x.author
        /\ NonAuthorRefused ]_vars
====
